---- MODULE Spec2Model ----
(***************************************************************************)
(* Verification model of the KDAG backstory-consistency pipeline.          *)
(*                                                                         *)
(* Part 1: the graph store (graph_creator_agent/graph_store.py):           *)
(*         deduplicate_triplets, add_triplets, save_graph, load_graph.     *)
(* Part 2: create_graph (graph_creator_agent/main.py) with the evidence    *)
(*         cache, the cache filter and the triplet extractor.              *)
(* Part 3: classify, extract and the row loop of test_pipeline.py.         *)
(* Parts 4-10: retrieve_topk, check_nli, create_graph statement by         *)
(*         statement, ingest_novel and its rate limiter, the Qdrant        *)
(*         collections, create_graph for two pairs, and answer.            *)
(*                                                                         *)
(* Each part has its own specification (SpecStore, SpecCreate,             *)
(* SpecExtractor, SpecCommute, SpecClassify, SpecExtract, SpecPipe,        *)
(* SpecRetriever, SpecNli, SpecRuns, SpecZep, SpecLimiter, SpecIndex,      *)
(* SpecPairs, SpecAnswer) over the same variables; the variables of the    *)
(* other parts stay idle.                                                  *)
(*                                                                         *)
(* Where a call site and the function it names disagree on the parameters  *)
(* (main.py:58 and extractor.generate_triplets; test_pipeline.py:135 and   *)
(* generate_justification), the model binds the call to the function's     *)
(* body; triplets are dicts, as graph_store.py indexes them.               *)
(*                                                                         *)
(* Python values that the store moves between memory and the GraphML file  *)
(* are modelled by what they are: a str with plain text, a str whose text  *)
(* is the JSON encoding of a list, or a list.  json.dumps / json.loads     *)
(* convert between the last two, so a round trip is not the identity on    *)
(* values.                                                                 *)
(***************************************************************************)
EXTENDS Integers, Sequences, FiniteSets, TLC

VARIABLES
    graph,      \* the in-memory nx.DiGraph a caller holds (utils/test.py scenarios)
    file,       \* the GraphML file of the (book, character) pair, or NoFile
    ops,        \* number of store operations performed
    lastOp,     \* the operation that produced this state
    scen,       \* observer of the two-triplet relation-conflict scenario
    files,      \* graph_creator_agent/graph/: GraphML file content by path
    cache,      \* EVIDENCE_CACHE: cache key -> set of evidence ids
    cacheFile,  \* evidence_cache.json: the persisted cache
    call,       \* what the last create_graph call did (observer)
    xt,         \* one generate_triplets call: its arguments and its result
    cm,         \* two stores fed the same evidence in different ways
    cls,        \* one classify call: the LLM's behaviour and the result
    ext,        \* one extract call: the LLM's queries, the retrievals, the result
    pipe,       \* the ensemble pipeline's run over the input rows (test_pipeline.py)
    rt, \* one retrieve_topk call: the search hits, their reranker scores, k, the result
    nli, \* one check_nli call: its second argument, the NLI model's behaviour, the result
    cc, \* create_graph calls running step by step, interleaved and interruptible (main.py)
    zp, \* ingest_novel's runs over the chunks, its checkpoint file and the remote graph (zep_novel_ingest.py)
    rl, \* a ZepFreeRateLimiter, the clock and the times at which acquire returned (zep_novel_ingest.py)
    ix, \* the Qdrant collections and the last two index operations (Graphrag/pathway)
    pr, \* two create_graph calls for two different (book, character) pairs on one store (main.py)
    an \* one call of the answering agent's answer(state) (answering_agent/main.py)

storeVars == <<graph, file, ops, lastOp, scen>>
createVars == <<files, cache, cacheFile, call>>
agentVars == <<cls, ext, pipe>>
moreVars == <<rt, nli, cc, zp, rl, ix, pr, an>>
coreVars == <<storeVars, createVars, xt, cm, agentVars>>
vars == <<coreVars, moreVars>>

\* ------------------------------------------------------------------ bounds
\* Number of store operations (add / save / load) in one behaviour.
MaxOps == 4
\* Longest triplet list handed to one add_triplets call.
MaxBatch == 2
\* Number of create_graph calls in one behaviour.
MaxCalls == 2
\* Longest triplet list in one extractor response.
MaxTriplets == 1
MaxQueryLen == 2
MaxRepeat == 4
MaxRows == 2
MaxCands == 3
MaxK == 2
MaxTexts == 3
\* chunks of the novel, and runs of the ingestion script
MaxChunks == 3
MaxRuns == 3
\* calls of ZepFreeRateLimiter.acquire
MaxAcquires == 6
\* characters of a book name, and index operations in a run
MaxNameLen == 2
MaxIndexOps == 3

\* ------------------------------------------------------- Python values
\* A str holding plain text s (not the JSON text of a list).
Atom(s) == [k |-> "atom", a |-> s, l |-> <<>>]
\* A str whose text is the JSON encoding of the list L.
JStr(L) == [k |-> "jstr", a |-> "", l |-> L]
\* A list object with elements L.
PyList(L) == [k |-> "list", a |-> "", l |-> L]

IsList(v) == v.k = "list"
IsStr(v) == v.k \in {"atom", "jstr"}

\* json.dumps(value) for a list value.
JsonDumps(v) == JStr(v.l)

\* json.loads(value) followed by "if isinstance(parsed, list)": the parsed
\* list when the text is a JSON list, otherwise the value is kept as it is
\* (JSONDecodeError, or a parse that is no list).
ParseIfJsonList(v) == IF v.k = "jstr" THEN PyList(v.l) ELSE v

\* Python "x in seq".
InSeq(x, s) == \E i \in 1..Len(s) : s[i] = x

\* ------------------------------------------------------------ universe
Subjects == {"A"}
Objects == {"B", "C"}
EvidenceIds == {"ev1", "ev2"}
\* Relation texts: two plain ones and one whose text is itself a JSON list.
Relations == {Atom("is"), Atom("works_as"), JStr(<<>>)}
PlainRelations == {Atom("is"), Atom("works_as")}
Summaries == {"", "s1"}

Triplet(s, r, o, e) == [subject |-> s, relation |-> r, object |-> o, evidence_id |-> e]
Triplets == {Triplet(s, r, o, e) : s \in Subjects, r \in Relations, o \in Objects, e \in EvidenceIds}
StoreTriplets == {t \in Triplets : t.object = "B"}

SeqsUpTo(S, n) == UNION {[1..m -> S] : m \in 0..n}

\* ---------------------------------------------------------------- graph
\* nx.DiGraph(): nodes, edges keyed by (subject, object) with the two edge
\* attributes, and the graph-level attribute graph_summary.
EmptyGraph == [nodes |-> {}, edges |-> <<>>, summary |-> ""]
NoFile == [nodes |-> {"<nofile>"}, edges |-> <<>>, summary |-> ""]

HasEdge(g, s, o) == <<s, o>> \in DOMAIN g.edges

\* ---------------------------------------------------- deduplicate_triplets
\* One entry of triplet_map: the copied triplet, and the "evidence_ids" key
\* once a duplicate was merged into it (has_ids).
Entry(t) == [subject |-> t.subject, relation |-> t.relation, object |-> t.object,
             evidence_id |-> t.evidence_id, has_ids |-> FALSE, evidence_ids |-> <<>>]

SameKey(e, t) == e.subject = t.subject /\ e.relation = t.relation /\ e.object = t.object

\* Index of the entry with the triplet's (subject, relation, object), or 0.
KeyIndex(map, t) ==
    IF \E i \in 1..Len(map) : SameKey(map[i], t)
    THEN CHOOSE i \in 1..Len(map) : SameKey(map[i], t)
    ELSE 0

\* existing.get("evidence_ids", [])
GetIds(e) == IF e.has_ids THEN e.evidence_ids ELSE <<>>

\* The body of "if key in triplet_map": merge evidence_id into the entry.
MergeDuplicate(e, eid) ==
    IF ~InSeq(eid, GetIds(e))
    THEN [e EXCEPT !.has_ids = TRUE,
                   !.evidence_ids = Append(IF e.has_ids THEN e.evidence_ids
                                           ELSE <<e.evidence_id>>, eid)]
    ELSE e

RECURSIVE DedupFrom(_, _, _)
DedupFrom(ts, i, map) ==
    IF i > Len(ts) THEN map
    ELSE LET t == ts[i]
             j == KeyIndex(map, t)
         IN IF j # 0
            THEN DedupFrom(ts, i + 1, [map EXCEPT ![j] = MergeDuplicate(map[j], t.evidence_id)])
            ELSE DedupFrom(ts, i + 1, Append(map, Entry(t)))

deduplicate_triplets(ts) == DedupFrom(ts, 1, <<>>)

\* ------------------------------------------------------------ add_triplets
\* "if 'evidence_ids' in triplet ... else [triplet['evidence_id']]", as list
\* elements (each a str).
RECURSIVE AtomsOf(_)
AtomsOf(ids) == IF ids = <<>> THEN <<>> ELSE <<Atom(Head(ids))>> \o AtomsOf(Tail(ids))

EntryIds(e) == AtomsOf(IF e.has_ids THEN e.evidence_ids ELSE <<e.evidence_id>>)

\* "elif not isinstance(edge_data['evidence_ids'], list)": wrap the value.
EnsureList(v) == IF IsList(v) THEN v.l ELSE IF v = Atom("") THEN <<>> ELSE <<v>>

\* "for eid in evidence_ids: if eid not in ...: append".
RECURSIVE AppendNew(_, _)
AppendNew(cur, ids) ==
    IF ids = <<>> THEN cur
    ELSE AppendNew(IF InSeq(Head(ids), cur) THEN cur ELSE Append(cur, Head(ids)), Tail(ids))

\* A variant of the existing-edge branch in which the last relation wins.
UpdateEdgeLastWins(ed, rel, ids) ==
    [relation |-> rel, evidence_ids |-> PyList(AppendNew(EnsureList(ed.evidence_ids), ids))]

\* The existing-edge branch: evidence ids are unioned in; the relation is kept
\* (rel, the triplet's relation, is only compared for the mismatch log).
UpdateEdge(ed, rel, ids) ==
    [relation |-> ed.relation, evidence_ids |-> PyList(AppendNew(EnsureList(ed.evidence_ids), ids))]

\* The new-edge branch: graph.add_edge(subject, obj, relation=..., evidence_ids=...).
NewEdge(rel, ids) == [relation |-> rel, evidence_ids |-> PyList(ids)]

AddOne(g, e) ==
    LET key == <<e.subject, e.object>>
        ids == EntryIds(e)
    IN [nodes |-> g.nodes \cup {e.subject, e.object},
        edges |-> IF HasEdge(g, e.subject, e.object)
                  THEN [g.edges EXCEPT ![key] = UpdateEdge(g.edges[key], e.relation, ids)]
                  ELSE (key :> NewEdge(e.relation, ids)) @@ g.edges,
        summary |-> g.summary]

RECURSIVE AddAll(_, _)
AddAll(g, es) == IF es = <<>> THEN g ELSE AddAll(AddOne(g, Head(es)), Tail(es))

add_triplets(g, ts) == AddAll(g, deduplicate_triplets(ts))

\* -------------------------------------------------------------- save_graph
\* The in-place conversion of every list attribute to its JSON text.
DumpAttr(v) == IF IsList(v) THEN JsonDumps(v) ELSE v

DumpEdge(ed) == [relation |-> DumpAttr(ed.relation), evidence_ids |-> DumpAttr(ed.evidence_ids)]

\* The graph object after save_graph(graph, book, character, graph_summary);
\* nx.write_graphml writes exactly this.
save_graph(g, summary) ==
    [nodes |-> g.nodes,
     edges |-> [e \in DOMAIN g.edges |-> DumpEdge(g.edges[e])],
     summary |-> IF summary # "" THEN summary ELSE g.summary]

\* -------------------------------------------------------------- load_graph
ConvertEdge(ed) ==
    [relation |-> ParseIfJsonList(ed.relation), evidence_ids |-> ParseIfJsonList(ed.evidence_ids)]

_convert_graphml_attributes(g) ==
    [nodes |-> g.nodes,
     edges |-> [e \in DOMAIN g.edges |-> ConvertEdge(g.edges[e])],
     summary |-> g.summary]

\* A variant that starts from a new graph whatever the file holds.
load_graph_fresh(f, readable) == EmptyGraph

\* load_graph(book, character): f is the file's content (NoFile when absent),
\* readable says whether nx.read_graphml succeeds.
load_graph(f, readable) ==
    IF f # NoFile /\ readable THEN _convert_graphml_attributes(f) ELSE EmptyGraph

\* ============================================================ create_graph
\* Part 2: graph_creator_agent/main.py, utils.py, cache.py, extractor.py.

\* Names are sequences of characters, so that sanitising and joining them is
\* computed, not assumed.
sanitize_filename(name) ==
    [i \in 1..Len(name) |->
        IF name[i] \in {"/", "\\"} THEN "_" ELSE IF name[i] = ":" THEN "-" ELSE name[i]]

\* f"{safe_book}_{safe_char}.graphml" inside graph_creator_agent/graph/.
GraphPath(book, char) == sanitize_filename(book) \o <<"_">> \o sanitize_filename(char)

\* f"{book_name}_{character_name}"
CacheKey(book, char) == book \o <<"_">> \o char

Pairs == {<< <<"b">>, <<"c">> >>}

\* dict.get(key, default) on a function used as a dict.
Get(d, key, default) == IF key \in DOMAIN d THEN d[key] ELSE default

\* Evidence lists: extract() builds them from a dict keyed by id, so an id
\* occurs at most once.
RECURSIVE Perms(_)
Perms(S) == IF S = {} THEN {<<>>} ELSE UNION {{<<x>> \o p : p \in Perms(S \ {x})} : x \in S}
EvidenceLists(ids) == UNION {Perms(S) : S \in SUBSET ids}

SeqToSet(s) == {s[i] : i \in 1..Len(s)}

\* A variant of the filter that lets every evidence item through.
filter_nothing(evidences, processed_ids) == evidences

\* filter_new_evidence: [ev for ev in evidences if ev["id"] not in processed_ids]
filter_new_evidence(evidences, processed_ids) ==
    SelectSeq(evidences, LAMBDA id : id \notin processed_ids)

\* ---- the extractor (extractor.py, the generate_triplets main.py imports)
\* One triplet dict of the LLM's answer: has_id says whether it has the key
\* "evidence_id" at all; the id may be empty or any text the model wrote.
RawTriplet(s, r, o, e, h) ==
    [subject |-> s, relation |-> r, object |-> o, evidence_id |-> e, has_id |-> h]
RawIds == EvidenceIds \cup {""}
RawTriplets ==
    {RawTriplet(s, r, "B", e, TRUE) : s \in Subjects, r \in PlainRelations, e \in RawIds}
    \cup {RawTriplet(s, r, "B", "", FALSE) : s \in Subjects, r \in PlainRelations}

\* The LLM's answer: path "structured" (with_structured_output succeeded),
\* "fallback" (it raised and the text answer parsed as JSON) or "fail" (both
\* failed), with the triplet dicts it carries.
Response(path, raw) == [path |-> path, raw |-> raw]
Responses ==
    {Response(p, raw) : p \in {"structured", "fallback"}, raw \in SeqsUpTo(RawTriplets, MaxTriplets)}
    \cup {Response("fail", <<>>)}

AsTriplet(raw) == Triplet(raw.subject, raw.relation, raw.object, raw.evidence_id)

RECURSIVE MapTriplets(_)
MapTriplets(raws) == IF raws = <<>> THEN <<>> ELSE <<AsTriplet(Head(raws))>> \o MapTriplets(Tail(raws))

\* extractor.generate_triplets(evidence_list, llm): the structured path skips
\* a triplet whose evidence_id is missing or empty, the fallback path one that
\* lacks a key; neither compares the id with the ids of evidence_list.
generate_triplets(evidence_list, resp) ==
    IF evidence_list = <<>> \/ resp.path = "fail" THEN <<>>
    ELSE IF resp.path = "structured"
    THEN MapTriplets(SelectSeq(resp.raw, LAMBDA t : t.has_id /\ t.evidence_id # ""))
    ELSE MapTriplets(SelectSeq(resp.raw, LAMBDA t : t.has_id))

\* graphcreator.generate_triplets(evidence_list, llm): both paths skip a
\* triplet whose evidence_id is not the id of an item of evidence_list.
graphcreator_generate_triplets(evidence_list, resp) ==
    IF evidence_list = <<>> \/ resp.path = "fail" THEN <<>>
    ELSE MapTriplets(SelectSeq(resp.raw,
             LAMBDA t : t.has_id /\ t.evidence_id \in SeqToSet(evidence_list)))

\* ---- create_graph
\* A variant of the cache update that records nothing.
update_cache_nothing(c, cache_key, new_evidences) == c

\* "if cache_key not in EVIDENCE_CACHE: ... = set()" and
\* "EVIDENCE_CACHE[cache_key].update(new_evidence_ids)".
update_cache(c, cache_key, new_evidences) ==
    (cache_key :> (Get(c, cache_key, {}) \cup SeqToSet(new_evidences))) @@ c

\* The LLM answers considered in create_graph calls (well-formed triplet
\* dicts citing any evidence id), and every triplet list generate_triplets
\* can return for them on a non-empty batch.
CreateResponses ==
    {resp \in Responses :
        \A i \in 1..Len(resp.raw) : resp.raw[i].has_id /\ resp.raw[i].evidence_id # ""}
ExtractorOutputs == {generate_triplets(<<"ev">>, resp) : resp \in CreateResponses}

\* The effect of create_graph(state) on the store st = [files, cache,
\* cacheFile] for (book, char) with evidence ids E: readable is the outcome of
\* nx.read_graphml, extracted what generate_triplets returns for the new
\* evidence, saved the outcome of save_cache's write.
\* (main.py passes character_name as a third argument to generate_triplets;
\* the model binds the two parameters the definition declares.)
\* A variant of the test of main.py line 60 that always merges and saves.
nothing_to_merge_never(triplets) == FALSE

\* main.py line 60, "if triplets:", negated.
nothing_to_merge(triplets) == triplets = <<>>

\* (The result also carries graph_path, the value create_graph returns in
\* updated_state: the same path on every branch.)
create_graph(st, book, char, E, readable, extracted, saved) ==
    LET cache_key == CacheKey(book, char)
        path == GraphPath(book, char)
        g == load_graph(Get(st.files, path, NoFile), readable)
        new_evidences == filter_new_evidence(E, Get(st.cache, cache_key, {}))
        triplets == IF new_evidences = <<>> THEN <<>> ELSE extracted
        newCache == update_cache(st.cache, cache_key, new_evidences)
    IN IF new_evidences = <<>> \/ nothing_to_merge(triplets)
       THEN [files |-> st.files, cache |-> st.cache, cacheFile |-> st.cacheFile,
             batch |-> new_evidences, triplets |-> triplets, graph_path |-> path]
       ELSE [files |-> (path :> save_graph(add_triplets(g, triplets), "")) @@ st.files,
             cache |-> newCache,
             cacheFile |-> IF saved THEN newCache ELSE st.cacheFile,
             batch |-> new_evidences, triplets |-> triplets, graph_path |-> path]

\* types.py TripletList.graph_summary: the narrative summary the LLM writes
\* with the triplets.
LLMSummaries == {"s1"}

TripletIds(ts) == {ts[i].evidence_id : i \in 1..Len(ts)}

\* <<"-">> stands for "no evidence list": no call yet in this process.
NoList == <<"-">>
NoCall == [n |-> 0, pair |-> <<>>, E |-> NoList, batch |-> <<>>, retIds |-> {}, got |-> FALSE,
           saved |-> FALSE, graph_path |-> <<>>, graph_summary |-> "", prevE |-> NoList,
           prevSettled |-> FALSE]

CreateStart ==
    /\ files = <<>>
    /\ cache = <<>>
    /\ cacheFile = <<>>
    /\ call = NoCall

CreateIdle == CreateStart

\* One create_graph call.  The observer records the evidence submitted, the
\* batch handed to the extractor, the evidence ids the extractor's triplets
\* cite, the graph_summary of the LLM's TripletList answer (which
\* generate_triplets does not return), whether save_cache's write went
\* through, the graph path returned,
\* and the previous call's evidence and whether that call ended with its
\* evidence settled (nothing new, or at least one triplet extracted).
CreateGraph ==
    /\ call.n < MaxCalls
    /\ \E pair \in Pairs, E \in EvidenceLists(EvidenceIds) :
       \E readable \in (IF GraphPath(pair[1], pair[2]) \in DOMAIN files THEN BOOLEAN ELSE {FALSE}),
          extracted \in (IF SeqToSet(E) \subseteq Get(cache, CacheKey(pair[1], pair[2]), {})
                         THEN {<<>>} ELSE ExtractorOutputs) :
       \E saved \in (IF extracted = <<>> THEN {FALSE} ELSE BOOLEAN),
          graph_summary \in (IF extracted = <<>> THEN {""} ELSE LLMSummaries) :
         LET r == create_graph([files |-> files, cache |-> cache, cacheFile |-> cacheFile],
                               pair[1], pair[2], E, readable, extracted, saved)
         IN /\ files' = r.files
            /\ cache' = r.cache
            /\ cacheFile' = r.cacheFile
            /\ call' = [n |-> call.n + 1, pair |-> pair, E |-> E, batch |-> r.batch,
                        retIds |-> TripletIds(r.triplets), got |-> r.triplets # <<>>,
                        saved |-> saved, graph_path |-> r.graph_path,
                        graph_summary |-> graph_summary,
                        prevE |-> call.E,
                        prevSettled |-> call.E # NoList /\ (call.batch = <<>> \/ call.got)]
    /\ UNCHANGED <<storeVars, xt, cm, agentVars, moreVars>>

\* A process restart: cache.py's load_cache() at import replaces
\* EVIDENCE_CACHE by the content of evidence_cache.json.
Restart ==
    /\ call.n > 0 /\ call.n < MaxCalls
    /\ cache' = cacheFile
    /\ call' = [NoCall EXCEPT !.n = call.n]
    /\ UNCHANGED <<files, cacheFile, storeVars, xt, cm, agentVars, moreVars>>

NextCreate == CreateGraph \/ Restart

\* ---- one call of generate_triplets, as a function of the LLM's answer
ExtractorIdle == xt = [pc |-> "idle", evidence_list |-> <<>>, resp |-> Response("fail", <<>>),
                       out |-> <<>>]

ExtractorStart ==
    xt \in {[pc |-> "call", evidence_list |-> E, resp |-> resp, out |-> <<>>] :
                E \in EvidenceLists(EvidenceIds), resp \in Responses}

\* extractor.generate_triplets, the function create_graph calls.
ExtractorGenerateTriplets ==
    /\ xt.pc = "call"
    /\ xt' = [xt EXCEPT !.pc = "extractor", !.out = generate_triplets(xt.evidence_list, xt.resp)]
    /\ UNCHANGED <<storeVars, createVars, cm, agentVars, moreVars>>

\* graphcreator.generate_triplets, the standalone variant.
GraphcreatorGenerateTriplets ==
    /\ xt.pc = "call"
    /\ xt' = [xt EXCEPT !.pc = "graphcreator",
                        !.out = graphcreator_generate_triplets(xt.evidence_list, xt.resp)]
    /\ UNCHANGED <<storeVars, createVars, cm, agentVars, moreVars>>

NextExtractor == ExtractorGenerateTriplets \/ GraphcreatorGenerateTriplets

\* ---- two stores and an extractor with fixed facts per evidence item
EmptyStore == [files |-> <<>>, cache |-> <<>>, cacheFile |-> <<>>]

\* What the extractor's LLM says about evidence item e, whenever it sees it.
FactChoices(e) ==
    {<<>>,
     <<RawTriplet("A", Atom("is"), "B", e, TRUE)>>,
     <<RawTriplet("A", Atom("works_as"), "B", e, TRUE),
       RawTriplet("A", Atom("is"), "C", e, TRUE)>>}

CommuteIds == {"ev1", "ev2", "ev3"}

RECURSIVE FactsOf(_, _)
FactsOf(facts, batch) ==
    IF batch = <<>> THEN <<>> ELSE facts[Head(batch)] \o FactsOf(facts, Tail(batch))

\* generate_triplets on a batch, with an LLM that answers on the structured
\* path with the facts of the batch's items, in batch order.
FixedExtractor(facts, batch) ==
    generate_triplets(batch, Response("structured", FactsOf(facts, batch)))

CommuteIdle == cm = [A |-> EmptyStore, B |-> EmptyStore, histA |-> <<>>, histB |-> <<>>,
                     facts |-> <<>>]

CommuteStart ==
    cm \in {[A |-> EmptyStore, B |-> EmptyStore, histA |-> <<>>, histB |-> <<>>,
             facts |-> f] : f \in [CommuteIds -> UNION {FactChoices(e) : e \in CommuteIds}]}
    /\ \A e \in CommuteIds : cm.facts[e] \in FactChoices(e)

Fed(hist) == UNION {SeqToSet(hist[i]) : i \in 1..Len(hist)}

\* create_graph on store st with evidence E, each item submitted once; the
\* graph file is readable and the cache file writable.
Feed(st, facts, E) ==
    LET pair == CHOOSE p \in Pairs : TRUE
        batch == filter_new_evidence(E, Get(st.cache, CacheKey(pair[1], pair[2]), {}))
        r == create_graph(st, pair[1], pair[2], E, TRUE, FixedExtractor(facts, batch), TRUE)
    IN [files |-> r.files, cache |-> r.cache, cacheFile |-> r.cacheFile]

FeedA ==
    /\ \E E \in EvidenceLists(CommuteIds) \ {<<>>} :
         /\ SeqToSet(E) \cap Fed(cm.histA) = {}
         /\ cm' = [cm EXCEPT !.A = Feed(cm.A, cm.facts, E), !.histA = Append(cm.histA, E)]
    /\ UNCHANGED <<storeVars, createVars, xt, agentVars, moreVars>>

FeedB ==
    /\ \E E \in EvidenceLists(CommuteIds) \ {<<>>} :
         /\ SeqToSet(E) \cap Fed(cm.histB) = {}
         /\ cm' = [cm EXCEPT !.B = Feed(cm.B, cm.facts, E), !.histB = Append(cm.histB, E)]
    /\ UNCHANGED <<storeVars, createVars, xt, agentVars, moreVars>>

NextCommute == FeedA \/ FeedB


\* ================================================================ Part 3
\* The agents around the store: classify (answering_agent/classifier.py),
\* extract (extraction_agent/main.py) and the ensemble pipeline's row loop
\* (test_pipeline.py).

\* ---- classify
\* JSON values: a number, a string, an array of strings; Missing is the
\* value of a key the LLM's JSON object does not have.
JNum(n) == [t |-> "number", n |-> n, s |-> "", a |-> <<>>]
JText(s) == [t |-> "string", n |-> 0, s |-> s, a |-> <<>>]
JArr(a) == [t |-> "array", n |-> 0, s |-> "", a |-> a]
Missing == [t |-> "missing", n |-> 0, s |-> "", a |-> <<>>]

\* The JSON object of an answer: any of the three keys may be missing, the
\* label may be 0, 1, another number or a string, evidence_queries may be a
\* list or something else.
LabelValues == {JNum(0), JNum(1), JNum(2), JText("1"), Missing}
ReasoningValues == {JText("r"), Missing}
QueryValues == {JArr(<<>>), JArr(<<"q1">>), JText("notalist"), Missing}
JsonObjects ==
    [label : LabelValues, reasoning : ReasoningValues, evidence_queries : QueryValues]

\* response.content: text that is a JSON object, a JSON array or no JSON at
\* all, possibly inside a ``` fence.
Contents ==
    [fenced : BOOLEAN, body : {"garbage", "array"}, obj : {<<>>}]
    \cup [fenced : BOOLEAN, body : {"object"}, obj : JsonObjects]

\* What llm.invoke(prompt) does: raise, or return a response.
LLMRaises == [call |-> "raises"]
LLMAnswers(content) == [call |-> "ok", content |-> content]
LLMOutcomes == {LLMRaises} \cup {LLMAnswers(c) : c \in Contents}

\* Lines 95-101: with a fence in the text, the slice from the first "{" to
\* the last "}" is parsed, and the whole text if there is no such slice; then
\* json.loads.  The result is a dict, a list, or json.loads raises.
ParseJson(content) ==
    IF content.body = "object" THEN [kind |-> "dict", obj |-> content.obj]
    ELSE IF content.body = "array" /\ ~content.fenced THEN [kind |-> "list"]
    ELSE [kind |-> "error"]

DictGet(obj, key, default) == IF obj[key] = Missing THEN default ELSE obj[key]

Raised == [kind |-> "raise"]
ClassificationOutput(label, reasoning, evidence_queries) ==
    [kind |-> "return", label |-> label, reasoning |-> reasoning,
     evidence_queries |-> evidence_queries]

\* classify(..., llm): llm.invoke and response.content.strip() come before
\* the try block (lines 87-88); everything from the fence handling to the
\* return is inside it (lines 93-136).
classify(llm) ==
    IF llm.call = "raises" THEN Raised
    ELSE LET parsed == ParseJson(llm.content)
         IN IF parsed.kind # "dict"
            THEN ClassificationOutput(0, "Error during classification", <<>>)
            ELSE LET label == DictGet(parsed.obj, "label", JNum(0))
                     queries == DictGet(parsed.obj, "evidence_queries", JArr(<<>>))
                 IN ClassificationOutput(
                        IF label \in {JNum(0), JNum(1)} THEN label.n ELSE 0,
                        DictGet(parsed.obj, "reasoning", JText("No reasoning provided")).s,
                        IF queries.t # "array" THEN <<>> ELSE queries.a)

ClassifyIdle == cls = [pc |-> "idle", llm |-> LLMRaises, out |-> Raised]

ClassifyStart == cls \in {[pc |-> "call", llm |-> l, out |-> Raised] : l \in LLMOutcomes}

Classify ==
    /\ cls.pc = "call"
    /\ cls' = [cls EXCEPT !.pc = "done", !.out = classify(cls.llm)]
    /\ UNCHANGED <<storeVars, createVars, xt, cm, ext, pipe, moreVars>>

NextClassify == Classify

\* ---- extract
MAX_QUERIES == 7

Queries == {"q1", "q2"}
ChunkIds == {"c1", "c2"}

\* The query lists the LLM may produce: short lists, and the same repeated
\* up to MaxRepeat times (long enough to pass MAX_QUERIES).
RECURSIVE Repeat(_, _)
Repeat(l, n) == IF n = 0 THEN <<>> ELSE l \o Repeat(l, n - 1)
QueryLists == {Repeat(l, n) : l \in SeqsUpTo(Queries, MaxQueryLen), n \in 1..MaxRepeat}

\* The query generation of extract (lines 66-120): the structured path, the
\* fallback path, or both failing.
\* For "fail", queries is what a path assigned before it raised.
QueryAnswers ==
    {[path |-> p, queries |-> qs] : p \in {"structured", "fallback", "fail"}, qs \in QueryLists}

\* Lines 66-120: queries = [] at the start and again when the fallback
\* raises; otherwise the list of the path that succeeded.
generate_queries(answer) == IF answer.path = "fail" THEN <<>> ELSE answer.queries

\* A variant without the limit.
limit_nothing(queries) == queries

\* Lines 122-125: queries[:MAX_QUERIES]
limit_queries(queries) ==
    IF Len(queries) > MAX_QUERIES THEN SubSeq(queries, 1, MAX_QUERIES) ELSE queries

\* What retrieve_topk(book, query, k=5) does for a query: raise (embedding,
\* Qdrant or reranker error; retriever.py has no handler), or return chunks.
RetrievalRaises == [kind |-> "raises", chunks |-> <<>>]
Retrievals == {RetrievalRaises} \cup {[kind |-> "ok", chunks |-> c] : c \in EvidenceLists(ChunkIds)}

\* all_evidences.update(evidence_dict): a dict keeps the position of a key it
\* already has.
\* A variant that appends every item.
DictUpdateAppend(keys, new) == keys \o new

RECURSIVE DictUpdate(_, _)
DictUpdate(keys, new) ==
    IF new = <<>> THEN keys
    ELSE DictUpdate(IF InSeq(Head(new), keys) THEN keys ELSE Append(keys, Head(new)), Tail(new))

\* The loop of lines 128-132: get_evidence for each query in turn; an
\* exception of get_evidence leaves the loop and extract.
RECURSIVE GetAllEvidence(_, _, _)
GetAllEvidence(queries, retrieval, all_evidences) ==
    IF queries = <<>> THEN [kind |-> "return", evidences |-> all_evidences]
    ELSE IF retrieval[Head(queries)].kind = "raises" THEN [kind |-> "raise", evidences |-> <<>>]
    ELSE GetAllEvidence(Tail(queries), retrieval,
                        DictUpdate(all_evidences, retrieval[Head(queries)].chunks))

\* extract(state): the queries of the answer, at most MAX_QUERIES of them
\* (lines 123-125), and the evidence of each.
\* The number of get_evidence calls the loop makes: one per query up to and
\* including the first that raises.
RECURSIVE RetrievalCalls(_, _)
RetrievalCalls(queries, retrieval) ==
    IF queries = <<>> THEN 0
    ELSE IF retrieval[Head(queries)].kind = "raises" THEN 1
    ELSE 1 + RetrievalCalls(Tail(queries), retrieval)

extract(answer, retrieval) ==
    LET queries == limit_queries(generate_queries(answer))
        got == GetAllEvidence(queries, retrieval, <<>>)
    IN [kind |-> got.kind, queries |-> queries, evidences |-> got.evidences,
        calls |-> RetrievalCalls(queries, retrieval)]

ExtractIdle == ext = [pc |-> "idle", answer |-> [path |-> "fail", queries |-> <<>>],
                      retrieval |-> <<>>, out |-> Raised]

ExtractStart ==
    ext \in {[pc |-> "call", answer |-> a, retrieval |-> r, out |-> Raised] :
                a \in QueryAnswers, r \in [Queries -> Retrievals]}

Extract ==
    /\ ext.pc = "call"
    /\ ext' = [ext EXCEPT !.pc = "done", !.out = extract(ext.answer, ext.retrieval)]
    /\ UNCHANGED <<storeVars, createVars, xt, cm, cls, pipe, moreVars>>

NextExtract == Extract

\* ---- the ensemble pipeline (test_pipeline.py main)
Books == {"The Count of Monte Cristo", "Unknown Book"}
KnownBooks == {"The Count of Monte Cristo"}

\* The LLM outcomes considered for the classifier stage of a row.
RowLLMOutcomes ==
    {LLMRaises,
     LLMAnswers([fenced |-> FALSE, body |-> "garbage", obj |-> <<>>]),
     LLMAnswers([fenced |-> TRUE, body |-> "object",
                 obj |-> [label |-> JNum(0), reasoning |-> JText("r"),
                          evidence_queries |-> JArr(<<>>)]]),
     LLMAnswers([fenced |-> TRUE, body |-> "object",
                 obj |-> [label |-> JNum(1), reasoning |-> JText("r"),
                          evidence_queries |-> JArr(<<>>)]])}

\* run_pipeline_for_row (main.py): extract, create_graph, answer in sequence;
\* an exception of a stage leaves app.invoke.  ex is "raises" when a
\* retrieval of extract raises, cg when save_graph's write raises, llm is the
\* behaviour of the classifier's LLM.
run_pipeline_for_row(ex, cg, llm) ==
    IF ex = "raises" \/ cg = "raises" THEN Raised
    ELSE LET c == classify(llm)
         IN IF c.kind = "raise" THEN Raised
            ELSE [kind |-> "return", label |-> c.label, reasoning |-> "classifier",
                  evidence_chunks |-> "classifier"]

\* features.extract_features: llm_pred = 1 if state.get("label") == 1 else 0
llm_prediction(state) == IF state.label = 1 THEN 1 ELSE 0

\* A variant that keeps the LLM's label.
final_label_llm(ml_pred, llm_pred) == llm_pred

\* test_pipeline.py line 94: final_label = ml_pred
final_label(ml_pred, llm_pred) == ml_pred

\* line 153
Encode(label) == IF label = 1 THEN "CONSISTENT" ELSE "CONTRADICTING"

\* The try block of one row (lines 79-178): the result row it appends, or
\* nothing when a step raises.  jr is the behaviour of generate_justification.
\* A variant of the test of line 99 that never asks for a justification.
disagreement_never(ml_pred, llm_pred) == FALSE

\* test_pipeline.py line 99: "if ml_pred != llm_pred"
disagreement(ml_pred, llm_pred) == ml_pred # llm_pred

\* generate_justification(..., target_label): the reasoning and evidence it
\* returns are its own, written for the label it was given.
generate_justification(target_label) ==
    [reasoning |-> "resolver", evidence_chunks |-> "resolver", target_label |-> target_label]

process_row(id, ex, cg, llm, ml_pred, jr) ==
    LET state == run_pipeline_for_row(ex, cg, llm)
    IN IF state.kind = "raise" THEN [kind |-> "raise", stage |-> "pipeline"]
       ELSE LET llm_pred == llm_prediction(state)
                label == final_label(ml_pred, llm_pred)
                invoked == disagreement(ml_pred, llm_pred)
                justification == generate_justification(ml_pred)
            IN IF invoked /\ jr = "raises"
               THEN [kind |-> "raise", stage |-> "resolver", ml_pred |-> ml_pred, llm_pred |-> llm_pred]
               ELSE [kind |-> "row", ml_pred |-> ml_pred, llm_pred |-> llm_pred,
                     resolver_calls |-> IF invoked THEN <<justification.target_label>> ELSE <<>>,
                     reasoning |-> state.reasoning, evidence_chunks |-> state.evidence_chunks,
                     row |-> [id |-> id, final_label |-> Encode(label),
                              llm_agreement |-> (ml_pred = llm_pred),
                              final_reasoning |-> IF invoked THEN justification.reasoning
                                                  ELSE state.reasoning,
                              evidence_used |-> IF invoked THEN justification.evidence_chunks
                                                ELSE state.evidence_chunks]]

NoRow == [kind |-> "none"]

\* ML_answering_final/train.py load_inference_artifacts: what is on disk
\* (env.xgb, env.lr: the model files exist), whether xgboost imports, and
\* whether pickle.load succeeds.  The classifier it returns: "xgb", "logreg"
\* or "none" (None).
ArtifactEnvs == [has_xgboost : BOOLEAN, xgb : BOOLEAN, lr : BOOLEAN, unpickles : BOOLEAN]

load_inference_artifacts(env) ==
    IF env.has_xgboost /\ env.xgb THEN (IF env.unpickles THEN "xgb" ELSE "none")
    ELSE IF env.lr THEN (IF env.unpickles THEN "logreg" ELSE "none")
    ELSE "none"

\* A variant of the test of line 41 that never ends the run.
aborts_never(clf_model) == FALSE

\* test_pipeline.py line 41: "if not clf_model"
aborts(clf_model) == clf_model = "none"

PipeIdle == pipe = [pc |-> "idle", clf |-> "none", i |-> 0, indexed |-> {}, results |-> <<>>,
                    last |-> NoRow]
PipeStart == pipe = [pc |-> "start", clf |-> "none", i |-> 0, indexed |-> {}, results |-> <<>>,
                     last |-> NoRow]

\* Lines 40-43: load_inference_artifacts; without a classifier the error is
\* logged and main returns.
LoadArtifacts ==
    /\ pipe.pc = "start"
    /\ \E env \in ArtifactEnvs :
         LET clf_model == load_inference_artifacts(env)
         IN pipe' = [pipe EXCEPT !.clf = clf_model,
                                 !.pc = IF aborts(clf_model) THEN "aborted" ELSE "loop"]
    /\ UNCHANGED <<storeVars, createVars, xt, cm, cls, ext, moreVars>>

\* One iteration of the row loop (lines 58-178).  build_index is called
\* outside the try block for a known book not yet indexed; if it raises, the
\* run ends.
ProcessRow ==
    /\ pipe.pc = "loop" /\ pipe.i < MaxRows
    /\ \E book \in Books :
       \E idx \in (IF book \in KnownBooks \ pipe.indexed THEN {"ok", "raises"} ELSE {"ok"}) :
         IF idx = "raises"
         THEN pipe' = [pipe EXCEPT !.pc = "crashed", !.i = pipe.i + 1, !.last = NoRow]
         ELSE \E ex \in {"ok", "raises"} :
              \E cg \in (IF ex = "ok" THEN {"ok", "raises"} ELSE {"ok"}) :
              \E llm \in (IF ex = "ok" /\ cg = "ok" THEN RowLLMOutcomes ELSE {LLMRaises}) :
              \E ml_pred \in (IF run_pipeline_for_row(ex, cg, llm).kind = "return"
                              THEN {0, 1} ELSE {0}) :
              \E jr \in (IF run_pipeline_for_row(ex, cg, llm).kind = "return"
                            /\ ml_pred # llm_prediction(run_pipeline_for_row(ex, cg, llm))
                         THEN {"ok", "raises"} ELSE {"ok"}) :
                LET r == process_row(pipe.i + 1, ex, cg, llm, ml_pred, jr)
                IN pipe' = [pipe EXCEPT
                              !.i = pipe.i + 1,
                              !.indexed = IF book \in KnownBooks THEN pipe.indexed \cup {book}
                                          ELSE pipe.indexed,
                              !.results = IF r.kind = "row" THEN Append(pipe.results, r.row)
                                          ELSE pipe.results,
                              !.last = r]
    /\ UNCHANGED <<storeVars, createVars, xt, cm, cls, ext, moreVars>>

\* The end of the loop.
Complete ==
    /\ pipe.pc = "loop" /\ pipe.i = MaxRows
    /\ pipe' = [pipe EXCEPT !.pc = "done", !.last = NoRow]
    /\ UNCHANGED <<storeVars, createVars, xt, cm, cls, ext, moreVars>>

NextPipe == LoadArtifacts \/ ProcessRow \/ Complete

AgentsIdle == ClassifyIdle /\ ExtractIdle /\ PipeIdle


\* ================================================================ Part 4
\* retrieve_topk (Graphrag/pathway/retriever.py), check_nli
\* (answering_agent/nli_checker.py), the interrupted and the concurrent
\* create_graph, and the Zep ingestion script (zep_novel_ingest.py).

\* ---- retrieve_topk
\* Reranker scores (floats in the code) are small integers here.
Scores == {0, 1, 2}

\* The vector search's hits in the order Qdrant returns them, each given by
\* the score reranker.predict assigns to it; hit i is search_result[i].
Candidates == SeqsUpTo(Scores, MaxCands)

\* Lines 110-121: one result per hit, in the order of the hits.
reranked_results(scores) == [i \in 1..Len(scores) |-> [hit |-> i, score |-> scores[i]]]

\* list.sort(key=score, reverse=True) is stable: x goes after every element
\* whose score is at least its own.
RECURSIVE InsertDesc(_, _)
InsertDesc(sorted, x) ==
    IF sorted = <<>> THEN <<x>>
    ELSE IF Head(sorted).score >= x.score THEN <<Head(sorted)>> \o InsertDesc(Tail(sorted), x)
    ELSE <<x>> \o sorted

RECURSIVE SortFrom(_, _)
SortFrom(results, sorted) ==
    IF results = <<>> THEN sorted ELSE SortFrom(Tail(results), InsertDesc(sorted, Head(results)))

\* A variant that leaves the results in search order.
sort_nothing(results) == results

\* Line 124: reranked_results.sort(key=lambda x: x["score"], reverse=True)
sort_by_score(results) == SortFrom(results, <<>>)

\* Line 127: reranked_results[:k], for k >= 0
Prefix(s, k) == SubSeq(s, 1, IF k < Len(s) THEN k ELSE Len(s))

\* retrieve_topk(name, query, k): no hit, no reranker call (lines 89-90).
retrieve_topk(scores, k) ==
    IF scores = <<>> THEN [hits |-> <<>>, reranked |-> FALSE]
    ELSE [hits |-> Prefix(sort_by_score(reranked_results(scores)), k), reranked |-> TRUE]

RetrieverIdle == rt = [pc |-> "idle", scores |-> <<>>, k |-> 0, out |-> [hits |-> <<>>, reranked |-> FALSE]]

RetrieverStart ==
    rt \in {[pc |-> "call", scores |-> c, k |-> k, out |-> [hits |-> <<>>, reranked |-> FALSE]] :
               c \in Candidates, k \in 0..MaxK}

RetrieveTopk ==
    /\ rt.pc = "call"
    /\ rt' = [rt EXCEPT !.pc = "done", !.out = retrieve_topk(rt.scores, rt.k)]
    /\ UNCHANGED <<coreVars, nli, cc, zp, rl, ix, pr, an>>

NextRetriever == RetrieveTopk

\* ---- check_nli
\* The second argument of check_nli: a str (answer passes the narrative
\* summary) or a list of n evidence texts (verify_scores.py passes one).
SummaryText(s) == [t |-> "str", s |-> s, n |-> 0]
EvidenceTexts(n) == [t |-> "list", s |-> "", n |-> n]
NliInputs ==
    {SummaryText(s) : s \in {"", "No graph data available.",
                             "No narrative summary available.", "summary"}}
    \cup {EvidenceTexts(n) : n \in 0..MaxTexts}

\* What model.predict(pairs) and the softmax give for the one pair: the
\* probabilities of contradiction, entailment and neutral in percent, or an
\* exception (model not loadable, input not accepted by the tokenizer).
NliRaises == [kind |-> "raises", contradiction |-> 0, entailment |-> 0, neutral |-> 0]
NliProbs ==
    {[kind |-> "ok", contradiction |-> c, entailment |-> e, neutral |-> 100 - c - e] :
        c \in {10, 30, 60}, e \in {10, 30}}
NliOutcomes == {NliRaises} \cup NliProbs

\* A variant of the guard that never finds the input empty.
nothing_to_score_never(graph_summary) == FALSE

\* Line 43: not graph_summary or graph_summary == "No graph data available."
nothing_to_score(graph_summary) ==
    \/ graph_summary.t = "str" /\ graph_summary.s \in {"", "No graph data available."}
    \/ graph_summary.t = "list" /\ graph_summary.n = 0

NLIScores(entailment_avg, contradiction_max, contradiction_avg, details, invoked) ==
    [kind |-> "return", entailment_avg |-> entailment_avg,
     contradiction_max |-> contradiction_max, contradiction_avg |-> contradiction_avg,
     details |-> details, invoked |-> invoked]

\* check_nli(backstory, graph_summary): one pair (graph_summary, backstory)
\* whatever graph_summary is (line 57), one details entry (81-86).
check_nli(graph_summary, model) ==
    IF nothing_to_score(graph_summary) THEN NLIScores(0, 0, 0, <<>>, FALSE)
    ELSE IF model.kind = "raises" THEN [kind |-> "raise", invoked |-> TRUE]
    ELSE NLIScores(model.entailment, model.contradiction, model.contradiction,
                   <<[contradiction |-> model.contradiction, entailment |-> model.entailment,
                      neutral |-> model.neutral]>>, TRUE)

NliIdle == nli = [pc |-> "idle", input |-> SummaryText(""), model |-> NliRaises,
                  out |-> [kind |-> "raise", invoked |-> FALSE]]

NliStart ==
    nli \in {[pc |-> "call", input |-> i, model |-> m, out |-> [kind |-> "raise", invoked |-> FALSE]] :
                i \in NliInputs, m \in NliOutcomes}

CheckNli ==
    /\ nli.pc = "call"
    /\ nli' = [nli EXCEPT !.pc = "done", !.out = check_nli(nli.input, nli.model)]
    /\ UNCHANGED <<coreVars, rt, cc, zp, rl, ix, pr, an>>

NextNli == CheckNli

\* ================================================= create_graph step by step
\* Part 5: graph_creator_agent/main.py create_graph as the sequence of its
\* statements, run by two callers for the same (book, character) on one
\* store.  Nothing in main.py, graph_store.py or cache.py takes a lock, so
\* the statements of the two calls interleave freely; a call can also stop
\* at any statement (an exception outside a try block, a signal, a kill).

\* What the graph file holds while nx.write_graphml has opened it for writing
\* and not yet closed it: open(path, "wb") truncates the file, and the XML
\* document is complete only when the writer has finished.
PartialFile == [nodes |-> {"<partial>"}, edges |-> <<>>, summary |-> ""]

Callers == {"p1", "p2"}

\* state["evidences"] of each caller: different new evidence.
CallerEvidence(p) == IF p = "p1" THEN <<"ev1">> ELSE <<"ev2">>

RunPair == CHOOSE pair \in Pairs : TRUE
RunKey == CacheKey(RunPair[1], RunPair[2])

\* What generate_triplets can return for a caller's batch: nothing, or one
\* triplet citing the batch's evidence, towards either object.
RunOutputs(batch) ==
    {generate_triplets(batch, Response("structured", raw)) :
        raw \in {<<>>} \cup {<<RawTriplet("A", Atom("is"), o, batch[1], TRUE)>> : o \in Objects}}

\* The store a run starts on: empty, or what one earlier create_graph call
\* with evidence ev0 left behind.
EarlierGraph == save_graph(add_triplets(EmptyGraph, <<Triplet("A", Atom("is"), "B", "ev0")>>), "")
EarlierCache == update_cache(<<>>, RunKey, <<"ev0">>)

NoRun == [pc |-> "idle", evidences |-> <<>>, graph |-> EmptyGraph, new_evidences |-> <<>>,
          triplets |-> <<>>]

RunsIdle == cc = [file |-> NoFile, cache |-> <<>>, cacheFile |-> <<>>,
                  run |-> [p \in Callers |-> NoRun]]

RunsStart ==
    cc \in {[file |-> f, cache |-> c, cacheFile |-> c,
             run |-> [p \in Callers |-> NoRun]] :
                f \in {NoFile, EarlierGraph}, c \in {<<>>, EarlierCache}}
    /\ (cc.file = NoFile <=> cc.cache = <<>>)

\* create_graph(state) is called: main.py:29-31.
RunBegin ==
    /\ \E p \in Callers :
         /\ cc.run[p].pc = "idle"
         /\ cc' = [cc EXCEPT !.run[p].pc = "load", !.run[p].evidences = CallerEvidence(p)]
    /\ UNCHANGED <<coreVars, rt, nli, zp, rl, ix, pr, an>>

\* graph = load_graph(book_name, character_name): a file that is being
\* written does not parse, and load_graph then starts a new graph.
RunLoadGraph ==
    /\ \E p \in Callers :
         /\ cc.run[p].pc = "load"
         /\ cc' = [cc EXCEPT !.run[p].pc = "filter",
                             !.run[p].graph = load_graph(cc.file, cc.file # PartialFile)]
    /\ UNCHANGED <<coreVars, rt, nli, zp, rl, ix, pr, an>>

\* new_evidences = filter_new_evidence(evidences, cache_key) and the early
\* return when nothing is new.
RunFilter ==
    /\ \E p \in Callers :
         /\ cc.run[p].pc = "filter"
         /\ LET new == filter_new_evidence(cc.run[p].evidences, Get(cc.cache, RunKey, {}))
            IN cc' = [cc EXCEPT !.run[p].pc = IF new = <<>> THEN "done" ELSE "generate",
                                !.run[p].new_evidences = new]
    /\ UNCHANGED <<coreVars, rt, nli, zp, rl, ix, pr, an>>

\* triplets = generate_triplets(new_evidences, llm, ...) and "if triplets".
RunGenerate ==
    /\ \E p \in Callers :
         /\ cc.run[p].pc = "generate"
         /\ \E ts \in RunOutputs(cc.run[p].new_evidences) :
              cc' = [cc EXCEPT !.run[p].pc = IF ts = <<>> THEN "done" ELSE "merge",
                               !.run[p].triplets = ts]
    /\ UNCHANGED <<coreVars, rt, nli, zp, rl, ix, pr, an>>

\* add_triplets(graph, triplets)
RunAddTriplets ==
    /\ \E p \in Callers :
         /\ cc.run[p].pc = "merge"
         /\ cc' = [cc EXCEPT !.run[p].pc = "save",
                             !.run[p].graph = add_triplets(cc.run[p].graph, cc.run[p].triplets)]
    /\ UNCHANGED <<coreVars, rt, nli, zp, rl, ix, pr, an>>

\* save_graph up to the moment nx.write_graphml has opened graph_path: the
\* list attributes are dumped in place and the file is truncated.
RunSaveOpen ==
    /\ \E p \in Callers :
         /\ cc.run[p].pc = "save"
         /\ cc' = [cc EXCEPT !.run[p].pc = "write",
                             !.run[p].graph = save_graph(cc.run[p].graph, ""),
                             !.file = PartialFile]
    /\ UNCHANGED <<coreVars, rt, nli, zp, rl, ix, pr, an>>

\* nx.write_graphml finishes: the file holds the caller's whole graph.
RunSaveWrite ==
    /\ \E p \in Callers :
         /\ cc.run[p].pc = "write"
         /\ cc' = [cc EXCEPT !.run[p].pc = "cache", !.file = cc.run[p].graph]
    /\ UNCHANGED <<coreVars, rt, nli, zp, rl, ix, pr, an>>

\* EVIDENCE_CACHE[cache_key].update(new_evidence_ids); save_cache()
RunUpdateCache ==
    /\ \E p \in Callers :
         /\ cc.run[p].pc = "cache"
         /\ LET c == update_cache(cc.cache, RunKey, cc.run[p].new_evidences)
            IN cc' = [cc EXCEPT !.run[p].pc = "done", !.cache = c, !.cacheFile = c]
    /\ UNCHANGED <<coreVars, rt, nli, zp, rl, ix, pr, an>>

\* The call stops where it is and never resumes.
RunInterrupt ==
    /\ \E p \in Callers :
         /\ cc.run[p].pc \notin {"idle", "done", "killed"}
         /\ cc' = [cc EXCEPT !.run[p].pc = "killed"]
    /\ UNCHANGED <<coreVars, rt, nli, zp, rl, ix, pr, an>>

NextRuns ==
    \/ RunBegin \/ RunLoadGraph \/ RunFilter \/ RunGenerate \/ RunAddTriplets
    \/ RunSaveOpen \/ RunSaveWrite \/ RunUpdateCache \/ RunInterrupt

\* ============================================================== ingest_novel
\* Part 6: zep_novel_ingest.py.  The checkpoint file holds chunks_processed
\* and user_created; the remote graph counts how often it has received each
\* chunk.  A run is the script started once; it ends when its loop ends, on
\* an exception (every except branch breaks or returns), or when the process
\* is stopped from outside.
ChunkIndexes == 0..(MaxChunks - 1)

\* ZepFreeRateLimiter._load_checkpoint's default when no file exists.
NoCheckpoint == [chunks_processed |-> 0, user_created |-> FALSE]

\* _save_checkpoint(chunks_processed, user_created=None): the file's new
\* content (user_created None keeps the loaded state's value).
KeepUser == "keep"
_save_checkpoint(state, chunks_processed, user_created) ==
    [chunks_processed |-> chunks_processed,
     user_created |-> IF user_created # KeepUser THEN user_created = "true"
                      ELSE state.user_created]

\* Outcomes of the remote calls: client.user.add returns, raises "exists" or
\* raises something else; client.graph.add returns after the chunk has been
\* taken, or raises without having taken it.
UserAddOutcomes == {"ok", "exists", "error"}
GraphAddOutcomes == {"ok", "error"}

ZepIdle == zp = [pc |-> "idle", runs |-> 0, checkpoint |-> NoCheckpoint, i |-> 0,
                 ingested |-> [c \in ChunkIndexes |-> 0]]

ZepStart == zp = [pc |-> "stopped", runs |-> 0, checkpoint |-> NoCheckpoint, i |-> 0,
                  ingested |-> [c \in ChunkIndexes |-> 0]]

\* A run from its start to the first loop iteration: the limiter loads the
\* checkpoint, the user is created if the checkpoint does not say it was,
\* and start_idx = state.get('chunks_processed', 0).
ZepStartRun ==
    /\ zp.pc = "stopped" /\ zp.runs < MaxRuns
    /\ \E user \in (IF zp.checkpoint.user_created THEN {"skip"} ELSE UserAddOutcomes) :
         LET state == IF user \in {"ok", "exists"}
                      THEN _save_checkpoint(zp.checkpoint, 0, "true")
                      ELSE zp.checkpoint
             start_idx == state.chunks_processed
         IN zp' = [zp EXCEPT !.runs = zp.runs + 1,
                             !.checkpoint = state,
                             !.i = start_idx,
                             !.pc = IF user = "error" \/ start_idx >= MaxChunks
                                    THEN "stopped" ELSE "loop"]
    /\ UNCHANGED <<coreVars, rt, nli, cc, rl, ix, pr, an>>

\* One iteration up to the return of client.graph.add (the rate limiter's
\* acquire before it only delays the call).
ZepGraphAdd ==
    /\ zp.pc = "loop"
    /\ \E outcome \in GraphAddOutcomes :
         zp' = IF outcome = "ok"
               THEN [zp EXCEPT !.pc = "sent", !.ingested[zp.i] = zp.ingested[zp.i] + 1]
               ELSE [zp EXCEPT !.pc = "stopped"]
    /\ UNCHANGED <<coreVars, rt, nli, cc, rl, ix, pr, an>>

\* rate_limiter._save_checkpoint(i + 1) and the step to the next iteration,
\* or the end of the loop.
ZepSaveCheckpoint ==
    /\ zp.pc = "sent"
    /\ zp' = [zp EXCEPT !.checkpoint = _save_checkpoint(zp.checkpoint, zp.i + 1, KeepUser),
                        !.i = zp.i + 1,
                        !.pc = IF zp.i + 1 >= MaxChunks THEN "stopped" ELSE "loop"]
    /\ UNCHANGED <<coreVars, rt, nli, cc, rl, ix, pr, an>>

\* The process is stopped from outside, between two statements of the loop.
ZepInterrupt ==
    /\ zp.pc \in {"loop", "sent"}
    /\ zp' = [zp EXCEPT !.pc = "stopped"]
    /\ UNCHANGED <<coreVars, rt, nli, cc, rl, ix, pr, an>>

NextZep == ZepStartRun \/ ZepGraphAdd \/ ZepSaveCheckpoint \/ ZepInterrupt

\* ====================================================== ZepFreeRateLimiter
\* Part 7: zep_novel_ingest.py, ZepFreeRateLimiter.acquire.  Time is counted
\* in whole seconds.  ingest_novel is the only caller and awaits each acquire
\* before it goes on, so the calls are sequential.

\* rpm: int = 4
rpm == 4
\* "now - t < 60" and "60 - (now - self.request_times[0]) + 2"
WINDOW == 60
MARGIN == 2

\* Seconds the caller spends between two calls of acquire, and seconds by
\* which asyncio.sleep overruns the requested time.
Delays == {0, 1, 15, 59}
Oversleep == {0, 1}

\* [t for t in self.request_times if now - t < 60]
FilterRecent(request_times, now) == SelectSeq(request_times, LAMBDA t : now - t < WINDOW)

\* A variant that does not wait at all.
wait_time_none(now, oldest) == 0

\* wait_time = 60 - (now - self.request_times[0]) + 2
wait_time(now, oldest) == WINDOW - (now - oldest) + MARGIN

\* acquire() entered at time now on a limiter whose list is request_times,
\* with asyncio.sleep overrunning by over: the list afterwards, the time at
\* which the call returns, and whether it slept.
acquire(request_times, now, over) ==
    LET recent == FilterRecent(request_times, now)
    IN IF Len(recent) >= rpm
       THEN LET woke == now + wait_time(now, recent[1]) + over
            IN [request_times |-> Append(FilterRecent(recent, woke), woke),
                returned |-> woke, slept |-> TRUE]
       ELSE [request_times |-> Append(recent, now), returned |-> now, slept |-> FALSE]

LimiterIdle == rl = [pc |-> "idle", now |-> 0, request_times |-> <<>>, returns |-> <<>>,
                     slept |-> FALSE]

\* ZepFreeRateLimiter.__init__: self.request_times = []
LimiterStart == rl = [pc |-> "call", now |-> 0, request_times |-> <<>>, returns |-> <<>>,
                      slept |-> FALSE]

\* await rate_limiter.acquire()
Acquire ==
    /\ rl.pc = "call" /\ Len(rl.returns) < MaxAcquires
    /\ \E over \in Oversleep :
         LET r == acquire(rl.request_times, rl.now, over)
         IN rl' = [pc |-> "work", now |-> r.returned, request_times |-> r.request_times,
                   returns |-> Append(rl.returns, r.returned),
                   slept |-> rl.slept \/ r.slept]
    /\ UNCHANGED <<coreVars, rt, nli, cc, zp, ix, pr, an>>

\* The caller's work between two calls (the remote call, the checkpoint).
Elapse ==
    /\ rl.pc = "work"
    /\ \E d \in Delays : rl' = [rl EXCEPT !.pc = "call", !.now = rl.now + d]
    /\ UNCHANGED <<coreVars, rt, nli, cc, zp, ix, pr, an>>

NextLimiter == Acquire \/ Elapse

\* ======================================================= Qdrant collections
\* Part 8: Graphrag/pathway build_index.py, retriever.py, index_manager.py.
\* Book names are sequences of characters, so that lowercasing and the
\* collection name are computed.  Qdrant compares collection names exactly.
NameChars == {"A", "a", "b"}
BookNames == SeqsUpTo(NameChars, MaxNameLen) \ {<<>>}

\* str.lower()
Lower(name) == [i \in 1..Len(name) |-> IF name[i] = "A" THEN "a" ELSE name[i]]

Suffix == <<"_collection">>

\* build_index: collection_name = f"{name}_collection"
build_index_collection(name) == name \o Suffix

\* retrieve_topk: name = name.lower(); collection = f"{name}_collection"
retrieve_topk_collection(name) == Lower(name) \o Suffix

\* clear_collection: book_name = book_name.lower(); f"{book_name}_collection"
clear_collection_name(book_name) == Lower(book_name) \o Suffix

NoIndexOp == [op |-> "none", name |-> <<>>, collection |-> <<>>, found |-> FALSE]

IndexIdle == ix = [pc |-> "idle", n |-> 0, collections |-> {}, last |-> NoIndexOp,
                   prev |-> NoIndexOp]
IndexStart == ix = [pc |-> "run", n |-> 0, collections |-> {}, last |-> NoIndexOp,
                    prev |-> NoIndexOp]

\* build_index(novel_path, name): the collection is created if it does not
\* exist and the chunks are upserted into it.
BuildIndex ==
    /\ ix.pc = "run" /\ ix.n < MaxIndexOps
    /\ \E name \in BookNames :
         LET c == build_index_collection(name)
         IN ix' = [ix EXCEPT !.n = ix.n + 1,
                             !.collections = ix.collections \cup {c},
                             !.prev = ix.last,
                             !.last = [op |-> "build", name |-> name, collection |-> c,
                                       found |-> TRUE]]
    /\ UNCHANGED <<coreVars, rt, nli, cc, zp, rl, pr, an>>

\* retrieve_topk(name, query): the search runs in the collection computed
\* from name; it finds chunks only if that collection exists.
RetrieveFromIndex ==
    /\ ix.pc = "run" /\ ix.n < MaxIndexOps
    /\ \E name \in BookNames :
         LET c == retrieve_topk_collection(name)
         IN ix' = [ix EXCEPT !.n = ix.n + 1,
                             !.prev = ix.last,
                             !.last = [op |-> "retrieve", name |-> name, collection |-> c,
                                       found |-> c \in ix.collections]]
    /\ UNCHANGED <<coreVars, rt, nli, cc, zp, rl, pr, an>>

\* clear_collection(book_name): deletes the collection if it exists.
ClearCollection ==
    /\ ix.pc = "run" /\ ix.n < MaxIndexOps
    /\ \E name \in BookNames :
         LET c == clear_collection_name(name)
         IN ix' = [ix EXCEPT !.n = ix.n + 1,
                             !.collections = ix.collections \ {c},
                             !.prev = ix.last,
                             !.last = [op |-> "clear", name |-> name, collection |-> c,
                                       found |-> c \in ix.collections]]
    /\ UNCHANGED <<coreVars, rt, nli, cc, zp, rl, pr, an>>

NextIndex == BuildIndex \/ RetrieveFromIndex \/ ClearCollection

\* ============================================ create_graph for two pairs
\* Part 9: graph_creator_agent/main.py with graph_store.sanitize_filename:
\* the graph file and the cache key of a (book, character) pair, for book
\* and character names that may contain '_' and '/'.
PathChars == {"a", "_", "/"}
PathNames == SeqsUpTo(PathChars, MaxNameLen) \ {<<>>}
NamePairs == PathNames \X PathNames

\* What the extractor returns for one evidence item in these calls.
PairTriplets(E) == generate_triplets(E, Response("structured",
                       <<RawTriplet("A", Atom("is"), "B", E[1], TRUE)>>))

PairsIdle == pr = [pc |-> "idle", p |-> <<>>, q |-> <<>>, first |-> EmptyStore,
                   store |-> EmptyStore]
PairsStart == pr \in {[pc |-> "first", p |-> p, q |-> <<>>, first |-> EmptyStore,
                       store |-> EmptyStore] : p \in NamePairs}

\* create_graph for pair p with evidence ev1; the store it leaves is kept
\* for comparison.
CreateFirst ==
    /\ pr.pc = "first"
    /\ LET E == <<"ev1">>
           r == create_graph(pr.store, pr.p[1], pr.p[2], E, TRUE, PairTriplets(E), TRUE)
           st == [files |-> r.files, cache |-> r.cache, cacheFile |-> r.cacheFile]
       IN pr' = [pr EXCEPT !.pc = "second", !.store = st, !.first = st]
    /\ UNCHANGED <<coreVars, rt, nli, cc, zp, rl, ix, an>>

\* create_graph for another pair q, with the same or other evidence.
CreateSecond ==
    /\ pr.pc = "second"
    /\ \E q \in NamePairs \ {pr.p}, E \in {<<"ev1">>, <<"ev2">>} :
         LET r == create_graph(pr.store, q[1], q[2], E, TRUE, PairTriplets(E), TRUE)
         IN pr' = [pr EXCEPT !.pc = "done", !.q = q,
                             !.store = [files |-> r.files, cache |-> r.cache,
                                        cacheFile |-> r.cacheFile]]
    /\ UNCHANGED <<coreVars, rt, nli, cc, zp, rl, ix, an>>

NextPairs == CreateFirst \/ CreateSecond

\* ==================================================================== answer
\* Part 10: answering_agent/main.py answer(state): the graph data it loads,
\* the classifier call and the NLI check on the narrative summary.

\* What answer finds for state.get("graph_path"): no path, a path whose file
\* does not exist, a file nx.read_graphml or get_graph_data fails on, or a
\* graph whose data was extracted.
GraphAvailability == {"no_path", "no_file", "load_fails", "loaded"}

\* Lines 42-54: narrative_summary keeps its initial text unless the graph's
\* data was extracted.
narrative_summary_of(avail) ==
    IF avail = "loaded" THEN "summary" ELSE "No narrative summary available."

\* answer(state): classify, then check_nli(backstory, narrative_summary); an
\* exception of either leaves answer.  nli_invoked records whether the NLI
\* model was run.
answer(avail, llm, model) ==
    LET classification == classify(llm)
        nli_metrics == check_nli(SummaryText(narrative_summary_of(avail)), model)
    IN IF classification.kind = "raise"
       THEN [kind |-> "raise", label |-> 0, nli_avg_entailment |-> 0,
             nli_max_contradiction |-> 0, nli_avg_contradiction |-> 0, nli_invoked |-> FALSE]
       ELSE IF nli_metrics.kind = "raise"
       THEN [kind |-> "raise", label |-> 0, nli_avg_entailment |-> 0,
             nli_max_contradiction |-> 0, nli_avg_contradiction |-> 0, nli_invoked |-> TRUE]
       ELSE [kind |-> "return", label |-> classification.label,
             nli_avg_entailment |-> nli_metrics.entailment_avg,
             nli_max_contradiction |-> nli_metrics.contradiction_max,
             nli_avg_contradiction |-> nli_metrics.contradiction_avg,
             nli_invoked |-> nli_metrics.invoked]

NoAnswer == [kind |-> "none", label |-> 0, nli_avg_entailment |-> 0,
             nli_max_contradiction |-> 0, nli_avg_contradiction |-> 0, nli_invoked |-> FALSE]

AnswerIdle == an = [pc |-> "idle", avail |-> "no_path", llm |-> LLMRaises, model |-> NliRaises,
                    out |-> NoAnswer]

AnswerStart ==
    an \in {[pc |-> "call", avail |-> a, llm |-> l, model |-> m, out |-> NoAnswer] :
               a \in GraphAvailability, l \in RowLLMOutcomes, m \in NliOutcomes}

Answer ==
    /\ an.pc = "call"
    /\ an' = [an EXCEPT !.pc = "done", !.out = answer(an.avail, an.llm, an.model)]
    /\ UNCHANGED <<coreVars, rt, nli, cc, zp, rl, ix, pr>>

NextAnswer == Answer

\* ================================================================ SpecStore
\* A caller working on one graph object, as the scenarios of utils/test.py
\* do: graph = load_graph(..); add_triplets(graph, ..); save_graph(graph, ..).

Batches == SeqsUpTo(StoreTriplets, MaxBatch) \ {<<>>}

\* Two triplets on the same (subject, object) with different relations and
\* different evidence ids.
Conflicting(t1, t2) ==
    /\ t1.subject = t2.subject /\ t1.object = t2.object
    /\ t1.relation # t2.relation /\ t1.evidence_id # t2.evidence_id

ScenOff == [st |-> "off", t1 |-> <<>>, t2 |-> <<>>]

\* The observer follows "add (A, r1, B, ev1), then (A, r2, B, ev2)" from the
\* empty graph, in one call or in two successive calls.
ScenAfterAdd(sc, ts) ==
    IF sc.st = "start" /\ Len(ts) = 1
    THEN [st |-> "first", t1 |-> <<ts[1]>>, t2 |-> <<>>]
    ELSE IF sc.st = "start" /\ Len(ts) = 2 /\ Conflicting(ts[1], ts[2])
    THEN [st |-> "done", t1 |-> <<ts[1]>>, t2 |-> <<ts[2]>>]
    ELSE IF sc.st = "first" /\ Len(ts) = 1 /\ Conflicting(sc.t1[1], ts[1])
    THEN [st |-> "done", t1 |-> sc.t1, t2 |-> <<ts[1]>>]
    ELSE ScenOff

StoreStart ==
    /\ graph = EmptyGraph
    /\ file = NoFile
    /\ ops = 0
    /\ lastOp = "init"
    /\ scen = [st |-> "start", t1 |-> <<>>, t2 |-> <<>>]

StoreIdle ==
    /\ graph = EmptyGraph
    /\ file = NoFile
    /\ ops = 0
    /\ lastOp = "init"
    /\ scen = ScenOff

AddTriplets ==
    /\ ops < MaxOps
    /\ \E ts \in Batches :
         /\ graph' = add_triplets(graph, ts)
         /\ scen' = ScenAfterAdd(scen, ts)
    /\ ops' = ops + 1
    /\ lastOp' = "add"
    /\ UNCHANGED <<file, createVars, xt, cm, agentVars, moreVars>>

SaveGraph ==
    /\ ops < MaxOps
    /\ \E summary \in Summaries :
         /\ graph' = save_graph(graph, summary)
         /\ file' = save_graph(graph, summary)
    /\ ops' = ops + 1
    /\ lastOp' = "save"
    /\ scen' = ScenOff
    /\ UNCHANGED <<createVars, xt, cm, agentVars, moreVars>>

LoadGraph ==
    /\ ops < MaxOps
    /\ \E readable \in BOOLEAN : graph' = load_graph(file, readable)
    /\ ops' = ops + 1
    /\ lastOp' = "load"
    /\ scen' = ScenOff
    /\ UNCHANGED <<file, createVars, xt, cm, agentVars, moreVars>>

NextStore == AddTriplets \/ SaveGraph \/ LoadGraph

ToolsIdle == RetrieverIdle /\ NliIdle /\ RunsIdle /\ ZepIdle /\ LimiterIdle /\ IndexIdle /\ PairsIdle /\ AnswerIdle

StoresIdle == StoreIdle /\ CreateIdle /\ ExtractorIdle /\ CommuteIdle

InitStore == StoreStart /\ CreateIdle /\ ExtractorIdle /\ CommuteIdle /\ AgentsIdle /\ ToolsIdle

SpecStore == InitStore /\ [][NextStore]_vars

InitCreate == StoreIdle /\ CreateStart /\ ExtractorIdle /\ CommuteIdle /\ AgentsIdle /\ ToolsIdle

SpecCreate == InitCreate /\ [][NextCreate]_vars

\* ---------------------------------------------------------------- C3
\* Elements of an attribute value (a list, or the JSON text of one).
RECURSIVE HasRepeat(_)
HasRepeat(s) == IF s = <<>> THEN FALSE ELSE InSeq(Head(s), Tail(s)) \/ HasRepeat(Tail(s))

\* C3: after any sequence of add_triplets, save_graph and load_graph from the
\* empty graph, no edge's evidence_ids holds an evidence id more than once.
C3_NoDuplicateEvidence ==
    \A e \in DOMAIN graph.edges : ~HasRepeat(graph.edges[e].evidence_ids.l)

\* ---------------------------------------------------------------- C4
\* add_triplets never changes the relation of an edge that already exists.
C4_RelationKept ==
    [][lastOp' = "add" /\ ops' = ops + 1 =>
         \A e \in DOMAIN graph.edges :
             /\ e \in DOMAIN graph'.edges
             /\ graph'.edges[e].relation = graph.edges[e].relation]_vars

\* After (A, r1, B, ev1) then (A, r2, B, ev2) with r2 # r1, in one call or in
\* two successive calls, the edge has relation r1 and evidence_ids [ev1, ev2].
C4_Scenario ==
    scen.st = "done" =>
        LET t1 == scen.t1[1]
            t2 == scen.t2[1]
            key == <<t1.subject, t1.object>>
        IN /\ key \in DOMAIN graph.edges
           /\ graph.edges[key].relation = t1.relation
           /\ graph.edges[key].evidence_ids =
                  PyList(<<Atom(t1.evidence_id), Atom(t2.evidence_id)>>)

\* C4: first relation wins: once an edge exists no later add_triplets changes
\* its relation, and the two-triplet conflict scenario ends with relation r1
\* and evidence_ids [ev1, ev2].
C4_FirstRelationWins == []C4_Scenario /\ C4_RelationKept

\* The conflict scenario completed by a second add_triplets call.
C4_Witness == scen.st = "done" /\ ops = 2 /\ lastOp = "add"

\* ================================================================ SpecExtractor
InitExtractor == StoreIdle /\ CreateIdle /\ ExtractorStart /\ CommuteIdle /\ AgentsIdle /\ ToolsIdle
SpecExtractor == InitExtractor /\ [][NextExtractor]_vars

\* ================================================================ SpecCommute
InitCommute == StoreIdle /\ CreateIdle /\ ExtractorIdle /\ CommuteStart /\ AgentsIdle /\ ToolsIdle
SpecCommute == InitCommute /\ [][NextCommute]_vars

\* ================================================================ SpecClassify
InitClassify == StoresIdle /\ ClassifyStart /\ ExtractIdle /\ PipeIdle /\ ToolsIdle
SpecClassify == InitClassify /\ [][NextClassify]_vars

\* ================================================================ SpecExtract
InitExtract == StoresIdle /\ ClassifyIdle /\ ExtractStart /\ PipeIdle /\ ToolsIdle
SpecExtract == InitExtract /\ [][NextExtract]_vars

\* ================================================================ SpecPipe
InitPipe == StoresIdle /\ ClassifyIdle /\ ExtractIdle /\ PipeStart /\ ToolsIdle
SpecPipe == InitPipe /\ [][NextPipe]_vars

\* ---------------------------------------------------------------- C1
\* The step is a create_graph call that submits the evidence list of the
\* call before it (same process, no restart in between).
RepeatedCall == call'.n = call.n + 1 /\ call'.E = call.E

EdgeIds(g) == UNION {SeqToSet(g.edges[e].evidence_ids.l) : e \in DOMAIN g.edges}

FileIds(fs, path) == IF path \in DOMAIN fs THEN EdgeIds(fs[path]) ELSE {}

\* C2: in every create_graph call, no evidence whose id is in
\* EVIDENCE_CACHE[key] when the call starts is passed to the extractor: the
\* batch is exactly the submitted evidence that is not cached, and whatever
\* the call adds to the persisted graph comes from the extractor's answer for
\* that batch.
C2_CacheFilter ==
    [][call'.n = call.n + 1 =>
         LET key == CacheKey(call'.pair[1], call'.pair[2])
             path == GraphPath(call'.pair[1], call'.pair[2])
             done == Get(cache, key, {})
         IN /\ SeqToSet(call'.batch) \cap done = {}
            /\ call'.batch = SelectSeq(call'.E, LAMBDA id : id \notin done)
            /\ (FileIds(files', path) \ FileIds(files, path))
                   \subseteq {Atom(id) : id \in call'.retIds}]_vars

\* With ev1 cached by a first call, [ev1, ev2] is submitted: only ev2 is
\* extracted, and its triplets are merged.
C2_Witness ==
    /\ call.n = 2 /\ call.E = <<"ev1", "ev2">> /\ call.batch = <<"ev2">> /\ call.got
    /\ cache[CacheKey(call.pair[1], call.pair[2])] = {"ev1", "ev2"}

\* ---------------------------------------------------------------- C5
\* C5: every triplet generate_triplets returns cites the id of an evidence
\* item passed to that call, on the structured path and on the fallback path.
C5_CitedIdsSupplied ==
    xt.pc \in {"extractor", "graphcreator"} => TripletIds(xt.out) \subseteq SeqToSet(xt.evidence_list)

\* ---------------------------------------------------------------- C6
\* Node set, edge set and per-edge evidence id sets of the persisted graphs.
GraphSets(fs) ==
    [p \in DOMAIN fs |->
        [nodes |-> fs[p].nodes,
         edges |-> [e \in DOMAIN fs[p].edges |-> SeqToSet(fs[p].edges[e].evidence_ids.l)]]]

C8_EveryClaimHasVerdict ==
    pipe.pc \in {"loop", "done", "crashed"} =>
        /\ Len(pipe.results) = pipe.i
        /\ \A k \in 1..pipe.i : pipe.results[k].id = k

\* ---------------------------------------------------------------- C9
\* The LLM call failed, or its content did not parse into a JSON object.
ClassifyFailed(llm) == llm.call = "raises" \/ ParseJson(llm.content).kind # "dict"

\* C9: classify always returns, with a label in {0, 1}; when the LLM call
\* fails or its output does not parse it returns label 0, an explanatory
\* reasoning and no evidence queries.
C9_ClassifyNeverRaises ==
    cls.pc = "done" =>
        /\ cls.out.kind = "return"
        /\ cls.out.label \in {0, 1}
        /\ ClassifyFailed(cls.llm) =>
              /\ cls.out.label = 0
              /\ cls.out.reasoning = "Error during classification"
              /\ cls.out.evidence_queries = <<>>

\* ---------------------------------------------------------------- C10
\* The queries extract retrieves evidence for.
Kept(ans) ==
    LET qs == generate_queries(ans)
    IN SubSeq(qs, 1, IF Len(qs) > MAX_QUERIES THEN MAX_QUERIES ELSE Len(qs))

\* C10: extract returns, and the returned evidences are those of the queries
\* whose retrieval succeeded; a query whose retrieval failed adds nothing.
C10_FailingQuerySkipped ==
    ext.pc = "done" =>
        /\ ext.out.kind = "return"
        /\ SeqToSet(ext.out.evidences) =
              UNION {SeqToSet(ext.retrieval[q].chunks) : q \in SeqToSet(Kept(ext.answer))}

\* ---------------------------------------------------------------- C11
Reverse(s) == [i \in 1..Len(s) |-> s[Len(s) + 1 - i]]

\* C11: the evidences extract returns hold each evidence id once, their ids
\* are the union of the ids retrieved for the queries, and processing the
\* queries in the opposite order gives the same set of ids.
C11_EvidenceDeduplicated ==
    ext.pc = "done" /\ ext.out.kind = "return" =>
        /\ ~HasRepeat(ext.out.evidences)
        /\ SeqToSet(ext.out.evidences) =
              UNION {SeqToSet(ext.retrieval[q].chunks) : q \in SeqToSet(ext.out.queries)}
        /\ SeqToSet(GetAllEvidence(Reverse(ext.out.queries), ext.retrieval, <<>>).evidences)
              = SeqToSet(ext.out.evidences)

\* Two queries were processed whose retrievals share a chunk and differ.
C11_Witness ==
    /\ ext.pc = "done" /\ ext.out.kind = "return"
    /\ ext.out.queries = <<"q1", "q2">>
    /\ ext.retrieval["q1"].chunks = <<"c1", "c2">>
    /\ ext.retrieval["q2"].chunks = <<"c2">>
    /\ ext.out.evidences = <<"c1", "c2">>

\* ---------------------------------------------------------------- C12
\* C12: on either path extract returns at most MAX_QUERIES queries and calls
\* get_evidence for at most MAX_QUERIES queries; when both paths fail the
\* queries list is empty.
C12_QueriesLimited ==
    ext.pc = "done" =>
        /\ ext.out.calls <= MAX_QUERIES
        /\ ext.out.kind = "return" =>
              /\ Len(ext.out.queries) <= MAX_QUERIES
              /\ (ext.answer.path = "fail" => ext.out.queries = <<>>)

\* The LLM gave more than MAX_QUERIES queries and extract kept MAX_QUERIES.
C12_Witness ==
    /\ ext.pc = "done" /\ ext.out.kind = "return"
    /\ Len(ext.answer.queries) > MAX_QUERIES
    /\ Len(ext.out.queries) = MAX_QUERIES /\ ext.out.calls = MAX_QUERIES

\* ================================================================ SpecRetriever
InitToolRetriever == StoresIdle /\ AgentsIdle /\ RetrieverStart /\ NliIdle /\ RunsIdle /\ ZepIdle /\ LimiterIdle /\ IndexIdle /\ PairsIdle /\ AnswerIdle
SpecRetriever == InitToolRetriever /\ [][NextRetriever]_vars

\* ---------------------------------------------------------------- C13
Min(a, b) == IF a < b THEN a ELSE b

\* C13: retrieve_topk returns min(k, number of hits) distinct hits in
\* non-increasing order of reranker score, none of them scored below a hit
\* that was left out; with no hit it returns [] and no reranker call is made.
C13_TopKByScore ==
    rt.pc = "done" =>
        LET hits == rt.out.hits
            chosen == {hits[i].hit : i \in 1..Len(hits)}
        IN /\ Len(hits) = Min(rt.k, Len(rt.scores))
           /\ Cardinality(chosen) = Len(hits)
           /\ \A i \in 1..Len(hits) :
                 hits[i].hit \in 1..Len(rt.scores) /\ hits[i].score = rt.scores[hits[i].hit]
           /\ \A i \in 1..Len(hits) - 1 : hits[i].score >= hits[i + 1].score
           /\ \A i \in chosen, j \in (1..Len(rt.scores)) \ chosen : rt.scores[i] >= rt.scores[j]
           /\ (rt.scores = <<>> => hits = <<>> /\ ~rt.out.reranked)

\* Three hits scored 0, 2, 1 and k = 2: the second and third are returned.
C13_Witness ==
    /\ rt.pc = "done" /\ rt.scores = <<0, 2, 1>> /\ rt.k = 2
    /\ rt.out.hits = <<[hit |-> 2, score |-> 2], [hit |-> 3, score |-> 1]>>

\* ================================================================ SpecNli
InitToolNli == StoresIdle /\ AgentsIdle /\ RetrieverIdle /\ NliStart /\ RunsIdle /\ ZepIdle /\ LimiterIdle /\ IndexIdle /\ PairsIdle /\ AnswerIdle
SpecNli == InitToolNli /\ [][NextNli]_vars

\* ---------------------------------------------------------------- C14
\* C14: check_nli on an empty input returns entailment_avg = 0.0,
\* contradiction_max = 0.0, contradiction_avg = 0.0 and details = [], and the
\* NLI model is not invoked.
C14_EmptyInputAllZero ==
    nli.pc = "done" /\ (nli.input = SummaryText("") \/ nli.input = EvidenceTexts(0)) =>
        nli.out = NLIScores(0, 0, 0, <<>>, FALSE)

\* check_nli was called with an empty evidence list.
C14_Witness == nli.pc = "done" /\ nli.input = EvidenceTexts(0) /\ nli.out.kind = "return"

\* ---------------------------------------------------------------- C15
RECURSIVE SumOf(_, _)
SumOf(details, field) ==
    IF details = <<>> THEN 0 ELSE Head(details)[field] + SumOf(Tail(details), field)

\* C15: for n >= 1 evidence texts check_nli returns one details entry per
\* text, entailment_avg is the mean of their entailment values,
\* contradiction_avg the mean and contradiction_max the maximum of their
\* contradiction values.
C15_AggregatesFromDetails ==
    nli.pc = "done" /\ nli.input.t = "list" /\ nli.input.n >= 1 =>
        /\ nli.out.kind = "return"
        /\ Len(nli.out.details) = nli.input.n
        /\ nli.out.entailment_avg * Len(nli.out.details) = SumOf(nli.out.details, "entailment")
        /\ nli.out.contradiction_avg * Len(nli.out.details) = SumOf(nli.out.details, "contradiction")
        /\ \A i \in 1..Len(nli.out.details) :
              nli.out.details[i].contradiction <= nli.out.contradiction_max
        /\ \E i \in 1..Len(nli.out.details) :
              nli.out.details[i].contradiction = nli.out.contradiction_max

\* ---------------------------------------------------------------- C16
\* C16: for every graph add_triplets has built, across add / save / load
\* cycles, load_graph after save_graph gives the same nodes and edges and, on
\* every edge, the same relation string and the same evidence_ids list.
C16_RoundTripExact ==
    lastOp = "add" =>
        LET back == load_graph(save_graph(graph, ""), TRUE)
        IN /\ back.nodes = graph.nodes
           /\ DOMAIN back.edges = DOMAIN graph.edges
           /\ \A e \in DOMAIN graph.edges :
                 /\ back.edges[e].relation = graph.edges[e].relation
                 /\ back.edges[e].evidence_ids = graph.edges[e].evidence_ids

\* ---------------------------------------------------------------- C17
InitToolRuns == StoresIdle /\ AgentsIdle /\ RetrieverIdle /\ NliIdle /\ RunsStart /\ ZepIdle /\ LimiterIdle /\ IndexIdle /\ PairsIdle /\ AnswerIdle
SpecRuns == InitToolRuns /\ [][NextRuns]_vars

AtRest(p) == cc.run[p].pc \in {"idle", "done", "killed"}

\* C17: if create_graph is interrupted while it persists its result, the
\* persisted graph is a complete graph (the one from before the call or the
\* merged one), never a partially written or unreadable file.
C17_PersistedGraphComplete ==
    (\A p \in Callers : AtRest(p)) => cc.file # PartialFile

\* ---------------------------------------------------------------- C18
Contributed(p) == cc.run[p].pc = "done" /\ cc.run[p].triplets # <<>>

\* C18: after two interleaved create_graph calls with different new evidence
\* have both completed, the persisted graph carries the evidence ids of both
\* calls and so does the cache (no lost update).
C18_NoLostUpdate ==
    (\A p \in Callers : Contributed(p)) =>
        /\ {Atom("ev1"), Atom("ev2")} \subseteq EdgeIds(cc.file)
        /\ {"ev1", "ev2"} \subseteq Get(cc.cache, RunKey, {})

\* ---------------------------------------------------------------- C19
InitToolZep == StoresIdle /\ AgentsIdle /\ RetrieverIdle /\ NliIdle /\ RunsIdle /\ ZepStart /\ LimiterIdle /\ IndexIdle /\ PairsIdle /\ AnswerIdle
SpecZep == InitToolZep /\ [][NextZep]_vars

\* A run works on the chunk whose index the checkpoint stores.
ZepResumesAtCheckpoint == zp.pc \in {"loop", "sent"} => zp.i = zp.checkpoint.chunks_processed

\* Every chunk the checkpoint is past has been ingested: the checkpoint
\* advances only past successful chunks and skips none.
ZepCheckpointBehindIngested ==
    \A c \in ChunkIndexes : c < zp.checkpoint.chunks_processed => zp.ingested[c] >= 1

\* C19: across runs and restarts of ingest_novel, each run starts at the
\* chunk index stored in the checkpoint, the checkpoint advances only past
\* chunks ingested successfully, none is skipped, and no chunk is ingested
\* more than once.
C19_ResumeExactlyOnce ==
    /\ ZepResumesAtCheckpoint
    /\ ZepCheckpointBehindIngested
    /\ \A c \in ChunkIndexes : zp.ingested[c] <= 1

\* ---------------------------------------------------------------- C20
InitToolLimiter == StoresIdle /\ AgentsIdle /\ RetrieverIdle /\ NliIdle /\ RunsIdle /\ ZepIdle /\ LimiterStart /\ IndexIdle /\ PairsIdle /\ AnswerIdle
SpecLimiter == InitToolLimiter /\ [][NextLimiter]_vars

\* Calls of acquire that returned in the 60 seconds starting at time a.
ReturnsInWindow(a) == {j \in 1..Len(rl.returns) : a <= rl.returns[j] /\ rl.returns[j] < a + WINDOW}

\* C20: acquire blocks its caller while the ceiling is reached: in every
\* 60-second window at most rpm calls of acquire return.  (A window with the
\* most returns can be moved to start at a return.)
C20_AtMostRpmPerWindow ==
    \A i \in 1..Len(rl.returns) : Cardinality(ReturnsInWindow(rl.returns[i])) <= rpm

\* The ceiling was reached, acquire slept, and more than rpm calls returned.
C20_Witness == rl.slept /\ Len(rl.returns) > rpm

\* ---------------------------------------------------------------- C21
\* C21: if no trained classifier artifact can be loaded, the ensemble
\* pipeline processes no claim and emits no verdict; it stops with the error
\* reported instead of going on with a default model, label or prediction.
C21_NoClassifierNoVerdict ==
    pipe.pc \notin {"idle", "start"} /\ pipe.clf = "none" =>
        /\ pipe.pc = "aborted"
        /\ pipe.i = 0
        /\ pipe.results = <<>>

\* The run ended because no classifier could be loaded.
C21_Witness == pipe.pc = "aborted" /\ pipe.clf = "none"

\* ---------------------------------------------------------------- C22
InitToolIndex == StoresIdle /\ AgentsIdle /\ RetrieverIdle /\ NliIdle /\ RunsIdle /\ ZepIdle /\ LimiterIdle /\ IndexStart /\ PairsIdle /\ AnswerIdle
SpecIndex == InitToolIndex /\ [][NextIndex]_vars

\* C22: build_index, retrieve_topk and clear_collection all use the
\* collection '<book name lowercased>_collection', so evidence indexed under a
\* book name is found when retrieving with that same name.
C22_OneCollectionPerBook ==
    /\ ix.last.op # "none" => ix.last.collection = Lower(ix.last.name) \o Suffix
    /\ (ix.last.op = "retrieve" /\ ix.prev.op = "build" /\ ix.prev.name = ix.last.name)
           => ix.last.found

\* ---------------------------------------------------------------- C23
\* Graph g2 has every node, edge and edge evidence id of g1.
GraphWithin(g1, g2) ==
    /\ g1.nodes \subseteq g2.nodes
    /\ DOMAIN g1.edges \subseteq DOMAIN g2.edges
    /\ \A e \in DOMAIN g1.edges :
         SeqToSet(g1.edges[e].evidence_ids.l) \subseteq SeqToSet(g2.edges[e].evidence_ids.l)

\* C23: across create_graph calls, whatever the outcome of loading the
\* existing graph file, the persisted graph and the cache only grow: nothing
\* in the persisted graph before a call is missing after it and no evidence
\* id leaves EVIDENCE_CACHE[key].
C23_OnlyGrows ==
    [][call'.n = call.n + 1 =>
         /\ \A path \in DOMAIN files :
              path \in DOMAIN files' /\ GraphWithin(files[path], files'[path])
         /\ \A key \in DOMAIN cache :
              key \in DOMAIN cache' /\ cache[key] \subseteq cache'[key]]_vars

\* ---------------------------------------------------------------- C24
\* The ids of the batch handed to the extractor are in EVIDENCE_CACHE[key]
\* and the cache file holds what the in-memory cache holds.
CacheSettled ==
    /\ SeqToSet(call.batch) \subseteq Get(cache, CacheKey(call.pair[1], call.pair[2]), {})
    /\ cacheFile = cache

C26_SummaryRegenerated ==
    call.got =>
        files[GraphPath(call.pair[1], call.pair[2])].summary = call.graph_summary

InitToolPairs == StoresIdle /\ AgentsIdle /\ RetrieverIdle /\ NliIdle /\ RunsIdle /\ ZepIdle /\ LimiterIdle /\ IndexIdle /\ PairsStart /\ AnswerIdle
SpecPairs == InitToolPairs /\ [][NextPairs]_vars

\* C28: distinct (book, character) pairs never share persisted state: their
\* graph paths and cache keys differ, so a create_graph call for one pair
\* changes neither the graph nor the cached evidence ids of the other.
C28_PairsIsolated ==
    pr.pc = "done" =>
        /\ GraphPath(pr.p[1], pr.p[2]) # GraphPath(pr.q[1], pr.q[2])
        /\ CacheKey(pr.p[1], pr.p[2]) # CacheKey(pr.q[1], pr.q[2])
        /\ pr.store.files[GraphPath(pr.p[1], pr.p[2])] = pr.first.files[GraphPath(pr.p[1], pr.p[2])]
        /\ pr.store.cache[CacheKey(pr.p[1], pr.p[2])] = pr.first.cache[CacheKey(pr.p[1], pr.p[2])]

\* ---------------------------------------------------------------- C29
\* C29: save_graph leaves the edges of the graph object it is given as they
\* were, so after save_graph, and after add_triplets on the same object
\* without a reload, every evidence_ids is still a list whose elements are
\* the evidence ids added so far.
C29_SaveLeavesGraphObject ==
    lastOp \in {"save", "add"} =>
        \A e \in DOMAIN graph.edges :
            /\ IsList(graph.edges[e].evidence_ids)
            /\ \A i \in 1..Len(graph.edges[e].evidence_ids.l) :
                 graph.edges[e].evidence_ids.l[i] \in {Atom(id) : id \in EvidenceIds}

\* ---------------------------------------------------------------- C30
InitToolAnswer == StoresIdle /\ AgentsIdle /\ RetrieverIdle /\ NliIdle /\ RunsIdle /\ ZepIdle /\ LimiterIdle /\ IndexIdle /\ PairsIdle /\ AnswerStart
SpecAnswer == InitToolAnswer /\ [][NextAnswer]_vars

\* C30: in answer, when no graph is available (no graph path, no file, or
\* loading fails), the NLI model is not run and the NLI metrics in the
\* returned state are all 0.
C30_NoGraphNoNli ==
    an.pc = "done" /\ an.avail # "loaded" =>
        /\ ~an.out.nli_invoked
        /\ an.out.kind = "return" =>
             /\ an.out.nli_avg_entailment = 0
             /\ an.out.nli_max_contradiction = 0
             /\ an.out.nli_avg_contradiction = 0

====
